---- MODULE Spec2Model ----
(***************************************************************************)
(* A model of the scaling-plots scripts: scaling_plot.py (strong / weak    *)
(* scaling charts), scaling_plot_categorical.py (per-category charts) and  *)
(* plot.py (the older, argument-less script).                              *)
(*                                                                         *)
(* Each script is a batch pipeline: load the sheet, filter, aggregate,     *)
(* compute the metrics, assemble the series, render the charts.  An        *)
(* uncaught exception ends the run at the statement that raised it.  The   *)
(* categorical script imports two names the module scaling_plot does not   *)
(* define, so its runs end at the import; the rest of its pipeline is      *)
(* translated from its source and is not reached.                          *)
(*                                                                         *)
(* Numbers: the sheet holds integer walltimes; every derived value (mean,  *)
(* speedup, efficiency) is kept as an exact fraction [num, den] in lowest  *)
(* terms with den > 0, where the code holds the nearest double.            *)
(*                                                                         *)
(* Libraries: the scripts are written against the pandas that still has    *)
(* DataFrame.sort; float(series) raises TypeError unless the series has    *)
(* exactly one element.  A dict is iterated in insertion order.            *)
(***************************************************************************)
EXTENDS Integers, Sequences, FiniteSets, TLC

VARIABLES
    script,             \* which of the three scripts runs
    args,               \* the parsed command line (get_args)
    sheet,              \* the worksheet rows, as read_excel returns them
    pc,                 \* the position of the run in the script
    error,              \* "none", or the exception that ended the run
    style,              \* the matplotlib style in force
    stdout,             \* the warnings printed so far
    filtered,           \* `results` after the row filters
    results,            \* `results` after groupby(...).mean().reset_index()
    group_dataframes,   \* the dict name -> dataframe, with the metric columns
    t1,                 \* the categorical script's reference value
    compute_elements,   \* the shared x axis (the category names, categorical)
    walltimes,          \* the assembled series, one per group
    strong_efficiencies,
    weak_efficiencies,
    speedups,
    series_names,
    charts,             \* the charts rendered so far, in order
    files               \* the image files written so far, in order

vars == <<script, args, sheet, pc, error, style, stdout, filtered, results,
          group_dataframes, t1, compute_elements, walltimes,
          strong_efficiencies, weak_efficiencies, speedups, series_names,
          charts, files>>

----------------------------------------------------------------------------
(* Bounds of the model *)

\* the longest sheet of the exhaustive family of sheets
MaxRows == 2

\* the largest number of groups of the many-groups family of sheets
MaxGroups == 10

----------------------------------------------------------------------------
(* Values *)

\* a null cell (NaN / None) and a column that was not loaded (usecols)
Null == "<null>"
NotLoaded == "<not loaded>"

\* group / category names in the order pandas sorts them (string order)
GroupNames == <<"A", "B", "C", "D", "E", "F", "G", "H", "I", "J", "K", "v1", "v2">>

Rank(g) == CHOOSE i \in 1..Len(GroupNames) : GroupNames[i] = g

Min(a, b) == IF a <= b THEN a ELSE b

Range(s) == {s[i] : i \in 1..Len(s)}

RECURSIVE GCD(_, _)
GCD(a, b) == IF b = 0 THEN a ELSE GCD(b, a % b)

\* the fraction n / d (d > 0, n >= 0) in lowest terms
Frac(n, d) == LET g == GCD(n, d) IN [num |-> n \div g, den |-> d \div g]

FracDiv(a, b) == Frac(a.num * b.den, a.den * b.num)

FracTimes(a, k) == Frac(a.num * k, a.den)

One == [num |-> 1, den |-> 1]

FracAdd(a, b) == Frac(a.num * b.den + b.num * a.den, a.den * b.den)

RECURSIVE FracSum(_)
FracSum(s) == IF s = <<>> THEN [num |-> 0, den |-> 1]
              ELSE FracAdd(Head(s), FracSum(Tail(s)))

\* a sum where the mean is meant
SumForMean(s) == FracSum(s)

\* Series.mean() of a non-empty column
Mean(s) == LET total == FracSum(s) IN Frac(total.num, total.den * Len(s))

Column(rows, col) == [i \in 1..Len(rows) |-> rows[i][col]]

\* Series.unique(): the distinct values in order of first appearance
RECURSIVE Unique(_)
Unique(s) ==
    IF s = <<>> THEN <<>>
    ELSE LET front == Unique(SubSeq(s, 1, Len(s) - 1))
             last == s[Len(s)]
         IN IF last \in Range(front) THEN front ELSE Append(front, last)

\* np.sort of a set of integers
RECURSIVE SortInts(_)
SortInts(S) ==
    IF S = {} THEN <<>>
    ELSE LET least == CHOOSE x \in S : \A y \in S : x <= y
         IN <<least>> \o SortInts(S \ {least})

----------------------------------------------------------------------------
(* Filter & aggregate *)

\* a filter whose mask is computed on the sheet as loaded and applied by
\* position to the frame it is given
FilterIncompleteByPosition(rows) ==
    LET kept == SortInts({i \in 1..Len(rows) :
                    sheet[i].group # Null /\ sheet[i].walltime > 0})
    IN [j \in 1..Len(kept) |-> rows[kept[j]]]

\* results[results.group.notnull() & (results.walltime > 0)]
FilterIncomplete(rows) ==
    SelectSeq(rows, LAMBDA r : r.group # Null /\ r.walltime.num > 0)

\* results[results[args.filter_column] > 0]
ApplyFilterColumn(rows) ==
    SelectSeq(rows, LAMBDA r : r.filter > 0)

\* the row filters of a run, in the order the scripts apply them; plot.py
\* has no filter column
FilterRows(rows, a) ==
    IF a.filter_column # ""
    THEN ApplyFilterColumn(FilterIncomplete(rows))
    ELSE FilterIncomplete(rows)

\* the order of the (group, compute_elements) keys of a groupby
KeyLess(k1, k2) ==
    \/ Rank(k1[1]) < Rank(k2[1])
    \/ k1[1] = k2[1] /\ k1[2] < k2[2]

RECURSIVE SortKeys(_)
SortKeys(S) ==
    IF S = {} THEN <<>>
    ELSE LET least == CHOOSE x \in S : \A y \in S \ {x} : KeyLess(x, y)
         IN <<least>> \o SortKeys(S \ {least})

\* results.groupby(['group', 'compute_elements']).mean().reset_index():
\* one row per key, keys ascending, walltime the mean of the key's rows
GroupByGroupAndElements(rows) ==
    LET keys == {<<rows[i].group, rows[i].compute_elements>> : i \in 1..Len(rows)}
        order == SortKeys(keys)
        members(k) == SelectSeq(rows,
            LAMBDA r : r.group = k[1] /\ r.compute_elements = k[2])
    IN [i \in 1..Len(order) |->
          [group |-> order[i][1],
           compute_elements |-> order[i][2],
           walltime |-> Mean(Column(members(order[i]), "walltime"))]]

RECURSIVE SortCategories(_)
SortCategories(S) ==
    IF S = {} THEN <<>>
    ELSE LET least == CHOOSE x \in S : \A y \in S : Rank(x) <= Rank(y)
         IN <<least>> \o SortCategories(S \ {least})

\* results.groupby([args.category_column]).mean().reset_index()
GroupByCategory(rows) ==
    LET keys == {rows[i].group : i \in 1..Len(rows)}
        order == SortCategories(keys)
        members(k) == SelectSeq(rows, LAMBDA r : r.group = k)
    IN [i \in 1..Len(order) |->
          [group |-> order[i],
           compute_elements |-> NotLoaded,
           walltime |-> Mean(Column(members(order[i]), "walltime"))]]

\* a sort that puts the largest compute_elements first
RECURSIVE SortByElementsDescending(_)
SortByElementsDescending(rows) ==
    IF rows = <<>> THEN <<>>
    ELSE LET front == SortByElementsDescending(SubSeq(rows, 1, Len(rows) - 1))
             last == rows[Len(rows)]
             keep == Cardinality({i \in 1..Len(front) :
                        front[i].compute_elements >= last.compute_elements})
         IN SubSeq(front, 1, keep) \o <<last>> \o SubSeq(front, keep + 1, Len(front))

\* df.sort('compute_elements', ascending=True): insertion of each row after
\* the rows that are not larger
RECURSIVE SortByElements(_)
SortByElements(rows) ==
    IF rows = <<>> THEN <<>>
    ELSE LET front == SortByElements(SubSeq(rows, 1, Len(rows) - 1))
             last == rows[Len(rows)]
             keep == Cardinality({i \in 1..Len(front) :
                        front[i].compute_elements <= last.compute_elements})
         IN SubSeq(front, 1, keep) \o <<last>> \o SubSeq(front, keep + 1, Len(front))

\* a split that makes a frame for every group of the sheet, without the
\* test for an empty frame
SplitGroupsOfSheet(rows) ==
    LET names == {sheet[i].group : i \in 1..Len(sheet)} \ {Null}
        groups == SortCategories(names)
    IN [i \in 1..Len(groups) |->
          [name |-> groups[i],
           data |-> SortByElements(SelectSeq(rows, LAMBDA r : r.group = groups[i]))]]

\* the loop that fills group_dataframes: one frame per group of `results`,
\* in the order of results.group.unique()
SplitGroups(rows) ==
    LET groups == Unique(Column(rows, "group"))
    IN [i \in 1..Len(groups) |->
          [name |-> groups[i],
           data |-> SortByElements(SelectSeq(rows, LAMBDA r : r.group = groups[i]))]]

----------------------------------------------------------------------------
(* Metric engine *)

\* the rows float(...) is applied to: rdf.loc[rdf[compute_elements] == 1]
ReferenceRows(rdf) == SelectSeq(rdf, LAMBDA r : r.compute_elements = 1)

\* a conversion that takes the first of several elements
FloatTakesFirst(series) == Len(series) = 0

\* float(series) raises TypeError unless the series has exactly one element
FloatRaises(series) == Len(series) # 1

\* a speedup computed upside down
SpeedupInverted(ref, row) == FracDiv(row.walltime, ref)

\* speedup n = t1 / tn
Speedup(ref, row) == FracDiv(ref, row.walltime)

\* an efficiency that counts the compute elements from zero
StrongEfficiencyOffByOne(ref, row) ==
    FracDiv(ref, FracTimes(row.walltime, row.compute_elements + 1))

\* strong scaling efficiency n = t1 / (tn * n)
StrongEfficiency(ref, row) ==
    FracDiv(ref, FracTimes(row.walltime, row.compute_elements))

\* a weak efficiency computed with the formula of the strong one
WeakEfficiencyPerElement(ref, row) ==
    FracDiv(ref, FracTimes(row.walltime, row.compute_elements))

\* weak scaling efficiency n = t1 / tn
WeakEfficiency(ref, row) == FracDiv(ref, row.walltime)

\* calculate_speedup_and_efficiency of scaling_plot.py, with the assignment
\* of the three returned series to the frame's columns
calculate_speedup_and_efficiency(rdf) ==
    LET ref == ReferenceRows(rdf)[1].walltime
    IN [i \in 1..Len(rdf) |->
          [group |-> rdf[i].group,
           compute_elements |-> rdf[i].compute_elements,
           walltime |-> rdf[i].walltime,
           speedup |-> Speedup(ref, rdf[i]),
           strong_efficiency |-> StrongEfficiency(ref, rdf[i]),
           weak_efficiency |-> WeakEfficiency(ref, rdf[i])]]

\* the index of the first frame whose reference lookup raises, 0 if none
FirstRaising(frames) ==
    LET bad == {i \in 1..Len(frames) : FloatRaises(ReferenceRows(frames[i].data))}
    IN IF bad = {} THEN 0 ELSE CHOOSE i \in bad : \A j \in bad : i <= j

\* a loop that swallows the exception
MetricsErrorSwallowed(frames) == "none"

\* the exception the loop over group_dataframes.values() ends with
MetricsError(frames) ==
    IF FirstRaising(frames) # 0 THEN "TypeError" ELSE "none"

\* the loop over group_dataframes.values(): the frames before the first
\* raising one have their metric columns, the others do not
WithMetrics(frames) ==
    LET stop == FirstRaising(frames)
    IN [i \in 1..Len(frames) |->
          IF stop = 0 \/ i < stop
          THEN [name |-> frames[i].name,
                data |-> calculate_speedup_and_efficiency(frames[i].data)]
          ELSE frames[i]]

\* the categorical script: the rows whose category is the baseline
BaselineRows(rows, a) == SelectSeq(rows, LAMBDA r : r.group = a.baseline_category)

\* results["speedup"] = t1 / results["walltime"]
WithCategorySpeedup(rows, ref) ==
    [i \in 1..Len(rows) |->
        [group |-> rows[i].group,
         compute_elements |-> rows[i].compute_elements,
         walltime |-> rows[i].walltime,
         speedup |-> FracDiv(ref, rows[i].walltime)]]

\* calculate_speedup_and_efficiency of plot.py, with the assignment of the
\* two returned series to the frame's columns
plot_calculate_speedup_and_efficiency(rdf) ==
    LET ref == ReferenceRows(rdf)[1].walltime
    IN [i \in 1..Len(rdf) |->
          [group |-> rdf[i].group,
           compute_elements |-> rdf[i].compute_elements,
           walltime |-> rdf[i].walltime,
           speedup |-> FracDiv(ref, rdf[i].walltime),
           efficiency |-> FracDiv(ref,
               FracTimes(rdf[i].walltime, rdf[i].compute_elements))]]

\* plot.py's loop over group_dataframes.values()
PlotWithMetrics(frames) ==
    LET stop == FirstRaising(frames)
    IN [i \in 1..Len(frames) |->
          IF stop = 0 \/ i < stop
          THEN [name |-> frames[i].name,
                data |-> plot_calculate_speedup_and_efficiency(frames[i].data)]
          ELSE frames[i]]

----------------------------------------------------------------------------
(* Series assembly *)

\* an x axis that is not sorted
ComputeElementsUnsorted(rows) == Unique(Column(rows, "compute_elements"))

\* np.sort(results.compute_elements.unique())
ComputeElements(rows) ==
    SortInts({rows[i].compute_elements : i \in 1..Len(rows)})

\* the list built by appending data[col] for every item of group_dataframes
SeriesOf(frames, col) ==
    [i \in 1..Len(frames) |-> Column(frames[i].data, col)]

SeriesNames(frames) == [i \in 1..Len(frames) |-> frames[i].name]

----------------------------------------------------------------------------
(* Chart rendering *)

\* the palette of scaling_plot.py
colours == <<"#00a9ce", "#78be20", "#DF1995", "#E87722", "#E4002B",
             "#00616c", "#FFB81C", "#6D2077", "#1E22AA">>

\* the palette of plot.py
plot_colours == <<"#00a9ce", "#00616c", "#78be20", "#DF1995", "#E87722",
                  "#E4002B", "#FFB81C", "#6D2077", "#1E22AA">>

\* the palette the plot_bar calls of the categorical script name; the
\* module scaling_plot has its palette only as the local `colours`
COLOURS == colours

\* zip(series, colours, series_names): as long as the shortest of the three
Zip(series, cols, names) ==
    [i \in 1..Min(Len(series), Min(Len(cols), Len(names))) |->
        [values |-> series[i], colour |-> cols[i], name |-> names[i]]]

\* add_optional_prefix; an absent option is None
\* a prefix that is added without the test for a missing or empty one
add_prefix_untested(base_string, prefix, separator) ==
    prefix \o separator \o base_string

add_optional_prefix(base_string, prefix, separator) ==
    IF prefix # Null /\ prefix # ""
    THEN prefix \o separator \o base_string
    ELSE base_string

\* save: the name of the file savefig writes (in the current directory)
save(path, ext) == path \o "." \o ext

\* ax.bar(bar_left, values): whether the heights fit the bar positions.  A
\* single height against several positions is broadcast by a matplotlib
\* that broadcasts its arguments and rejected by one that compares lengths.
BarFits(values, x, broadcasts) ==
    \/ Len(values) = Len(x)
    \/ Len(values) = 1 /\ broadcasts

\* ax.plot(compute_elements, values): x and y must have the same length
LineFits(values, x) == Len(values) = Len(x)

\* what a plot function returns to the script: the exception it raised, the
\* figure it drew and the file it wrote
Rendered(kind, drawn, x, show, file_name, ext, disk_ok) ==
    [error |-> IF show \/ disk_ok THEN "none" ELSE "IOError",
     chart |-> <<[kind |-> kind, drawn |-> drawn, x |-> x,
                  output |-> IF show THEN "window"
                             ELSE IF disk_ok THEN "file" ELSE "none"]>>,
     file |-> IF ~show /\ disk_ok THEN <<save(file_name, ext)>> ELSE <<>>]

Raised(exception) == [error |-> exception, chart |-> <<>>, file |-> <<>>]

\* plot_walltime of scaling_plot.py and of plot.py
plot_walltime(series, cols, names, x, show, file_name, ext, broadcasts, disk_ok) ==
    LET drawn == Zip(series, cols, names)
    IN IF Len(series) = 0 THEN Raised("ZeroDivisionError")
       ELSE IF Len(x) = 0 THEN Raised("IndexError")
       ELSE IF \E i \in 1..Len(drawn) : ~BarFits(drawn[i].values, x, broadcasts)
       THEN Raised("ValueError")
       ELSE Rendered("walltime", drawn, x, show, file_name, ext, disk_ok)

\* plot_efficiency and plot_speedup: the same line chart but for the
\* reference line
plot_lines(kind, series, cols, names, x, show, file_name, ext, disk_ok) ==
    LET drawn == Zip(series, cols, names)
    IN IF \E i \in 1..Len(drawn) : ~LineFits(drawn[i].values, x)
       THEN Raised("ValueError")
       ELSE Rendered(kind, drawn, x, show, file_name, ext, disk_ok)

plot_efficiency(series, cols, names, x, show, file_name, ext, disk_ok) ==
    plot_lines("efficiency", series, cols, names, x, show, file_name, ext, disk_ok)

plot_speedup(series, cols, names, x, show, file_name, ext, disk_ok) ==
    plot_lines("speedup", series, cols, names, x, show, file_name, ext, disk_ok)

\* plot_bar of the categorical script: one bar per category, each a scalar
plot_bar(kind, series, cols, names, show, file_name, ext, disk_ok) ==
    LET drawn == Zip(series, cols, names)
    IN IF Len(series) = 0 THEN Raised("IndexError")
       ELSE Rendered(kind, drawn, names, show, file_name, ext, disk_ok)

----------------------------------------------------------------------------
(* The runs the model explores: a script, its command line and a sheet *)

Row(g, n, t, f) == [group |-> g, compute_elements |-> n, walltime |-> t, filter |-> f]

\* the sheets of at most MaxRows rows over a small set of rows: complete
\* rows of two groups, rows with a null key, rows with a zero walltime
SmallRows(ns, fs) ==
    {Row(g, n, t, f) : g \in {"A", "B"}, n \in ns, t \in {10, 20}, f \in fs}
    \cup {Row(Null, n, 10, f) : n \in ns, f \in fs}
    \cup {Row("A", n, 0, f) : n \in ns, f \in fs}

\* the sheets in which each of two groups was measured at its own subset of
\* 1, 2 and 4 compute elements, once each
GridWalltime(n) == IF n = 1 THEN 100 ELSE IF n = 2 THEN 60 ELSE 20

GridRows(g, ns) ==
    [i \in 1..Cardinality(ns) |->
        LET n == SortInts(ns)[i] IN Row(g, n, GridWalltime(n), 1)]

GridSheets ==
    {GridRows("B", nb) \o GridRows("A", na) :
        na \in SUBSET {1, 2, 4}, nb \in SUBSET {1, 2, 4}}

\* the sheets with one complete row for each of the first k groups, listed
\* last group first
ManyGroupsSheets ==
    {[i \in 1..k |-> Row(GroupNames[k + 1 - i], 1, 10, 1)] : k \in 1..MaxGroups}

\* two categories, the baseline twice as slow as the other
CategorySheets ==
    {<<Row("v2", 1, 25, 1), Row("v1", 1, 50, 1)>>,
     <<Row("v1", 1, 50, 1), Row("v2", 1, 25, 1)>>}

Args(filter_column, weak, window, file_prefix, astyle, baseline, ext) ==
    [filter_column |-> filter_column, weak |-> weak, window |-> window,
     file_prefix |-> file_prefix, style |-> astyle,
     baseline_category |-> baseline, file_extension |-> ext]

\* plot.py takes no arguments: the settings it hard-codes
PlotSettings == Args("", FALSE, TRUE, "odps", "", Null, "png")

Options ==
    {Args("", w, win, pre, st, Null, "png") :
        w \in BOOLEAN, win \in BOOLEAN, pre \in {Null, "", "run"},
        st \in {"", "ggplot", "bogus"}}

CategoricalOptions ==
    {Args("", FALSE, win, pre, st, "A", ext) :
        win \in BOOLEAN, pre \in {Null, "", "run"},
        st \in {"", "ggplot", "bogus"}, ext \in {"png", "pdf"}}

\* the default command line, with or without --filter_column
Defaults(filter_column, baseline) ==
    Args(filter_column, FALSE, FALSE, Null, "", baseline, "png")

Run(sc, a, sh) == script = sc /\ args = a /\ sheet = sh

ScalingRuns ==
    \/ \E k \in 0..MaxRows : \E sh \in [1..k -> SmallRows({1, 2}, {1})] :
          Run("scaling_plot", Defaults("", Null), sh)
    \/ \E k \in 0..MaxRows : \E sh \in [1..k -> SmallRows({1, 2}, {-1, 0, 1})] :
          Run("scaling_plot", Defaults("ok", Null), sh)
    \/ \E sh \in ManyGroupsSheets : Run("scaling_plot", Defaults("", Null), sh)
    \/ \E a \in Options : \E sh \in GridSheets : Run("scaling_plot", a, sh)

CategoricalRuns ==
    \/ \E k \in 0..MaxRows : \E sh \in [1..k -> SmallRows({1}, {-1, 0, 1})] :
          Run("scaling_plot_categorical", Defaults("ok", "A"), sh)
    \/ \E sh \in ManyGroupsSheets :
          Run("scaling_plot_categorical", Defaults("", "A"), sh)
    \/ \E a \in CategoricalOptions :
          \E k \in 0..MaxRows : \E sh \in [1..k -> SmallRows({1}, {1})] :
             Run("scaling_plot_categorical", a, sh)
    \/ \E sh \in CategorySheets :
          Run("scaling_plot_categorical", Defaults("", "v1"), sh)

PlotRuns ==
    \/ \E k \in 0..MaxRows : \E sh \in [1..k -> SmallRows({1, 2}, {1})] :
          Run("plot", PlotSettings, sh)
    \/ \E sh \in GridSheets \cup ManyGroupsSheets : Run("plot", PlotSettings, sh)

----------------------------------------------------------------------------
(* The scripts *)

\* the names the module scaling_plot has after its import: the modules it
\* imports and the functions it defines (its palette is the local `colours`
\* of the script part, which an import does not run)
scaling_plot_names ==
    {"os", "sys", "pd", "np", "matplotlib", "plt", "argparse",
     "get_args", "save", "read_dataframe_from_excel",
     "calculate_speedup_and_efficiency", "plot_walltime", "plot_speedup",
     "plot_efficiency", "add_optional_prefix"}

\* from scaling_plot import (...) at the top of the categorical script
categorical_imports ==
    {"COLOURS", "add_optional_prefix", "add_sorted_legend",
     "read_dataframe_from_excel", "save"}

\* the import statement raises ImportError when scaling_plot lacks a name
ImportRaises(sc) ==
    sc = "scaling_plot_categorical" /\ ~(categorical_imports \subseteq scaling_plot_names)

ValidStyles == {"ggplot"}

\* read_excel with usecols: the columns the script asks for, numbers as floats
Load(rows, sc, a) ==
    [i \in 1..Len(rows) |->
        [group |-> rows[i].group,
         compute_elements |->
             IF sc = "scaling_plot_categorical" THEN NotLoaded
             ELSE rows[i].compute_elements,
         walltime |-> Frac(rows[i].walltime, 1),
         filter |-> IF a.filter_column # "" THEN rows[i].filter ELSE NotLoaded]]

\* matplotlib.style.use(args.style) inside the script's try block
StyleAfter(a) ==
    IF a.style # "" /\ a.style \in ValidStyles THEN a.style ELSE "default"

\* what the except clause prints: scaling_plot.py passes, the categorical
\* script warns
StyleWarnings(sc, a) ==
    IF sc = "scaling_plot_categorical" /\ a.style # "" /\ a.style \notin ValidStyles
    THEN <<"Warning: '" \o a.style
             \o "' is not a valid matplotlib style. Using default style.">>
    ELSE <<>>

walltime_file == add_optional_prefix("walltime", args.file_prefix, "-")
speedup_file == add_optional_prefix("speedup", args.file_prefix, "-")
efficiency_file ==
    add_optional_prefix(IF args.weak THEN "weak-efficiency" ELSE "strong-efficiency",
                        args.file_prefix, "-")

Init ==
    /\ (ScalingRuns \/ CategoricalRuns \/ PlotRuns)
    /\ pc = "start"
    /\ error = "none"
    /\ style = "default"
    /\ stdout = <<>>
    /\ filtered = <<>>
    /\ results = <<>>
    /\ group_dataframes = <<>>
    /\ t1 = Null
    /\ compute_elements = <<>>
    /\ walltimes = <<>>
    /\ strong_efficiencies = <<>>
    /\ weak_efficiencies = <<>>
    /\ speedups = <<>>
    /\ series_names = <<>>
    /\ charts = <<>>
    /\ files = <<>>

\* the imports, the argument handling, the load and the row filters
LoadAndFilter ==
    /\ pc = "start"
    /\ IF ImportRaises(script)
       THEN /\ error' = "ImportError"
            /\ pc' = "failed"
            /\ UNCHANGED <<style, stdout, filtered, results>>
       ELSE /\ style' = IF script = "plot" THEN style ELSE StyleAfter(args)
            /\ stdout' = stdout \o StyleWarnings(script, args)
            /\ filtered' = IF script = "plot"
                           THEN FilterIncomplete(Load(sheet, script, args))
                           ELSE FilterRows(Load(sheet, script, args), args)
            /\ results' = IF script = "plot" THEN filtered' ELSE results
            /\ pc' = IF script = "plot" THEN "metrics" ELSE "aggregate"
            /\ UNCHANGED error
    /\ UNCHANGED <<script, args, sheet, group_dataframes, t1,
                   compute_elements, walltimes, strong_efficiencies,
                   weak_efficiencies, speedups, series_names, charts, files>>

\* the mean of the rows that share a key (not in plot.py)
Aggregate ==
    /\ pc = "aggregate"
    /\ results' = IF script = "scaling_plot_categorical"
                  THEN GroupByCategory(filtered)
                  ELSE GroupByGroupAndElements(filtered)
    /\ pc' = "metrics"
    /\ UNCHANGED <<script, args, sheet, error, style, stdout, filtered,
                   group_dataframes, t1, compute_elements, walltimes,
                   strong_efficiencies, weak_efficiencies, speedups,
                   series_names, charts, files>>

\* the split into one frame per group and the metrics of every frame; the
\* categorical script computes the speedup on the one frame it has
CalculateMetrics ==
    /\ pc = "metrics"
    /\ IF script = "scaling_plot_categorical"
       THEN LET base == BaselineRows(results, args)
            IN IF FloatRaises(base)
               THEN /\ error' = "TypeError"
                    /\ pc' = "failed"
                    /\ UNCHANGED <<t1, results, group_dataframes>>
               ELSE /\ t1' = base[1].walltime
                    /\ results' = WithCategorySpeedup(results, base[1].walltime)
                    /\ pc' = "series"
                    /\ UNCHANGED <<error, group_dataframes>>
       ELSE LET frames == SplitGroups(results)
            IN /\ group_dataframes' = IF script = "plot"
                                      THEN PlotWithMetrics(frames)
                                      ELSE WithMetrics(frames)
               /\ error' = MetricsError(frames)
               /\ pc' = IF MetricsError(frames) # "none" THEN "failed" ELSE "series"
               /\ UNCHANGED <<t1, results>>
    /\ UNCHANGED <<script, args, sheet, style, stdout, filtered,
                   compute_elements, walltimes, strong_efficiencies,
                   weak_efficiencies, speedups, series_names, charts, files>>

\* the x axis and the parallel lists of series and names
BuildSeries ==
    /\ pc = "series"
    /\ IF script = "scaling_plot_categorical"
       THEN /\ series_names' = Column(results, "group")
            /\ compute_elements' = Column(results, "group")
            /\ walltimes' = Column(results, "walltime")
            /\ speedups' = Column(results, "speedup")
            /\ UNCHANGED <<strong_efficiencies, weak_efficiencies>>
       ELSE /\ compute_elements' = ComputeElements(results)
            /\ walltimes' = SeriesOf(group_dataframes, "walltime")
            /\ strong_efficiencies' =
                  SeriesOf(group_dataframes,
                           IF script = "plot" THEN "efficiency" ELSE "strong_efficiency")
            /\ weak_efficiencies' =
                  IF script = "plot" THEN weak_efficiencies
                  ELSE SeriesOf(group_dataframes, "weak_efficiency")
            /\ speedups' = SeriesOf(group_dataframes, "speedup")
            /\ series_names' = SeriesNames(group_dataframes)
    /\ pc' = "walltime"
    /\ UNCHANGED <<script, args, sheet, error, style, stdout, filtered, results,
                   group_dataframes, t1, charts, files>>

\* a script that goes on to the next chart when a plot call raises
AfterPlotContinues(r, next) ==
    /\ charts' = charts \o r.chart
    /\ files' = files \o r.file
    /\ error' = IF r.error # "none" THEN r.error ELSE error
    /\ pc' = next
    /\ UNCHANGED <<script, args, sheet, style, stdout, filtered, results,
                   group_dataframes, t1, compute_elements, walltimes,
                   strong_efficiencies, weak_efficiencies, speedups, series_names>>

\* a plot call returned: the figure and the file it produced, and where the
\* script goes next
AfterPlot(r, next) ==
    /\ charts' = charts \o r.chart
    /\ files' = files \o r.file
    /\ error' = IF r.error # "none" THEN r.error ELSE error
    /\ pc' = IF r.error # "none" THEN "failed" ELSE next
    /\ UNCHANGED <<script, args, sheet, style, stdout, filtered, results,
                   group_dataframes, t1, compute_elements, walltimes,
                   strong_efficiencies, weak_efficiencies, speedups, series_names>>

PlotWalltime ==
    /\ pc = "walltime"
    /\ \E broadcasts \in BOOLEAN, disk_ok \in BOOLEAN :
          IF script = "scaling_plot"
          THEN AfterPlot(plot_walltime(walltimes, colours, series_names,
                                       compute_elements, args.window,
                                       walltime_file, "png", broadcasts, disk_ok),
                         "efficiency")
          ELSE IF script = "plot"
          THEN AfterPlot(plot_walltime(walltimes, plot_colours, series_names,
                                       compute_elements, args.window,
                                       "odps-walltime", "png", broadcasts, disk_ok),
                         "efficiency")
          ELSE AfterPlot(plot_bar("walltime", walltimes, COLOURS, series_names,
                                  args.window, walltime_file,
                                  args.file_extension, disk_ok),
                         "speedup")

\* an efficiency chart that is given the strong series whatever --weak says
EfficiencySeriesAlwaysStrong == strong_efficiencies

\* efficiencies=weak_efficiencies if args.weak else strong_efficiencies
EfficiencySeries ==
    IF args.weak THEN weak_efficiencies ELSE strong_efficiencies

PlotEfficiency ==
    /\ pc = "efficiency"
    /\ \E disk_ok \in BOOLEAN :
          IF script = "scaling_plot"
          THEN AfterPlot(plot_efficiency(
                             EfficiencySeries,
                             colours, series_names, compute_elements, args.window,
                             efficiency_file, "png", disk_ok),
                         IF args.weak THEN "done" ELSE "speedup")
          ELSE AfterPlot(plot_efficiency(strong_efficiencies, plot_colours,
                                         series_names, compute_elements,
                                         args.window, "odps-efficiency", "png",
                                         disk_ok),
                         "done")

PlotSpeedup ==
    /\ pc = "speedup"
    /\ \E disk_ok \in BOOLEAN :
          IF script = "scaling_plot"
          THEN AfterPlot(plot_speedup(speedups, colours, series_names,
                                      compute_elements, args.window,
                                      speedup_file, "png", disk_ok),
                         "done")
          ELSE AfterPlot(plot_bar("speedup", speedups, COLOURS, series_names,
                                  args.window, speedup_file,
                                  args.file_extension, disk_ok),
                         "done")

Next ==
    \/ LoadAndFilter
    \/ Aggregate
    \/ CalculateMetrics
    \/ BuildSeries
    \/ PlotWalltime
    \/ PlotEfficiency
    \/ PlotSpeedup

Spec == Init /\ [][Next]_vars

----------------------------------------------------------------------------
(* Vocabulary of the properties *)

\* the run is past the metric computation, which did not raise
MetricsDone ==
    \/ pc \in {"series", "walltime", "efficiency", "speedup", "done"}
    \/ pc = "failed" /\ error \notin {"TypeError", "ImportError"}

\* the run is past the aggregation
Aggregated == pc \notin {"start", "aggregate"}

\* the run has applied its row filters, the filter column among them
FilterColumnApplied ==
    script # "plot" /\ args.filter_column # "" /\ pc # "start" /\ error # "ImportError"

\* two fractions a and b / c are equal
EqualsQuotient(a, b, c) == a.num * b.den * c.num = a.den * b.num * c.den

\* the rows of the frame `rows` that belong to group g
RowsOf(rows, g) == SelectSeq(rows, LAMBDA r : r.group = g)

GroupsOf(rows) == {rows[i].group : i \in 1..Len(rows)}

\* the rows of group g at one compute element
ReferenceOf(rows, g) ==
    SelectSeq(rows, LAMBDA r : r.group = g /\ r.compute_elements = 1)

\* the sheet of the scenario: group A at 1, 2 and 4 compute elements
ScenarioSheet == <<Row("A", 1, 100, 1), Row("A", 2, 60, 1), Row("A", 4, 20, 1)>>

----------------------------------------------------------------------------
(* C1: in scaling_plot.py, every row of every group's frame has            *)
(* speedup = t1 / walltime and strong_efficiency = t1 / (walltime *        *)
(* compute_elements), t1 being the walltime of the group's aggregated row  *)
(* at one compute element; the sheet (1,100), (2,60), (4,20) gives the     *)
(* speedups 1, 5/3, 5 and the strong efficiencies 1, 5/6, 5/4.             *)
SpeedupAndEfficiencyFormulas ==
    (script = "scaling_plot" /\ MetricsDone) =>
        /\ \A i \in 1..Len(group_dataframes) :
              LET frame == group_dataframes[i]
                  ref == ReferenceOf(results, frame.name)[1].walltime
              IN \A j \in 1..Len(frame.data) :
                    LET row == frame.data[j]
                    IN /\ EqualsQuotient(row.speedup, ref, row.walltime)
                       /\ EqualsQuotient(row.strong_efficiency, ref,
                              [num |-> row.walltime.num * row.compute_elements,
                               den |-> row.walltime.den])
        /\ sheet = ScenarioSheet =>
              /\ Len(group_dataframes) = 1
              /\ Column(group_dataframes[1].data, "speedup")
                    = <<[num |-> 1, den |-> 1], [num |-> 5, den |-> 3],
                        [num |-> 5, den |-> 1]>>
              /\ Column(group_dataframes[1].data, "strong_efficiency")
                    = <<[num |-> 1, den |-> 1], [num |-> 5, den |-> 6],
                        [num |-> 5, den |-> 4]>>

\* the scenario's metrics have been computed
ScenarioMetricsComputed ==
    /\ script = "scaling_plot"
    /\ sheet = ScenarioSheet
    /\ pc = "series"
    /\ Len(group_dataframes[1].data) = 3

----------------------------------------------------------------------------
\* the groups of the aggregated frame without a row at one compute element
GroupsWithoutReference ==
    {g \in GroupsOf(results) : ReferenceOf(results, g) = <<>>}

MetricsAttempted == pc \notin {"start", "aggregate", "metrics"}

(* C2 as stated: in scaling_plot.py a group without a row at one compute   *)
(* element makes the run fail with a DataError before any chart is         *)
(* rendered or saved.                                                      *)
MissingReferenceRaisesDataError ==
    (script = "scaling_plot" /\ MetricsAttempted /\ GroupsWithoutReference # {}) =>
        /\ pc = "failed"
        /\ error = "DataError"
        /\ charts = <<>>
        /\ files = <<>>

(* C2 as amended: in scaling_plot.py a group without a row at one compute  *)
(* element makes the run fail with the TypeError that float() raises on    *)
(* the empty selection, before any chart is rendered or saved.             *)
MissingReferenceRaisesTypeError ==
    (script = "scaling_plot" /\ MetricsAttempted /\ GroupsWithoutReference # {}) =>
        /\ pc = "failed"
        /\ error = "TypeError"
        /\ charts = <<>>
        /\ files = <<>>

\* a run failed on a group without reference row while another group has one
FailedOnMissingReference ==
    /\ script = "scaling_plot"
    /\ pc = "failed"
    /\ GroupsWithoutReference # {}
    /\ GroupsOf(results) \ GroupsWithoutReference # {}

----------------------------------------------------------------------------
\* the frame the script computes its metrics on
MetricsInput == IF script = "plot" THEN filtered ELSE results

\* the groups (in the categorical script: the baseline category) with more
\* than one row matching the reference condition
AmbiguousReferences ==
    IF script = "scaling_plot_categorical"
    THEN {g \in {args.baseline_category} : Len(RowsOf(MetricsInput, g)) > 1}
    ELSE {g \in GroupsOf(MetricsInput) : Len(ReferenceOf(MetricsInput, g)) > 1}

(* C3: in each of the three scripts, when more than one row matches the    *)
(* reference condition the metric computation raises and the run fails:    *)
(* no row is picked as t1, no chart is drawn.                              *)
AmbiguousReferenceRejected ==
    (MetricsAttempted /\ AmbiguousReferences # {}) =>
        /\ pc = "failed"
        /\ error = "TypeError"
        /\ t1 = Null
        /\ \A i \in 1..Len(group_dataframes) :
              group_dataframes[i].name \in AmbiguousReferences =>
                 \A j \in 1..Len(group_dataframes[i].data) :
                    "speedup" \notin DOMAIN group_dataframes[i].data[j]
        /\ charts = <<>>

\* plot.py failed on raw rows that repeat a group's reference row
PlotFailedOnDuplicateReference ==
    /\ script = "plot"
    /\ pc = "failed"
    /\ AmbiguousReferences # {}

----------------------------------------------------------------------------
\* colour i of the round-robin assignment over a palette
RoundRobin(palette, i) == palette[((i - 1) % Len(palette)) + 1]

(* C4: in scaling_plot.py every chart draws every group: group i of the    *)
(* assembled lists is drawn with name i and with the colour                *)
(* palette[i mod palette length], whatever the number of groups.           *)
EveryGroupDrawnRoundRobin ==
    (script = "scaling_plot" /\ error = "none") =>
        \A c \in 1..Len(charts) :
            /\ Len(charts[c].drawn) = Len(series_names)
            /\ \A i \in 1..Len(charts[c].drawn) :
                  /\ charts[c].drawn[i].name = series_names[i]
                  /\ charts[c].drawn[i].colour = RoundRobin(colours, i)

----------------------------------------------------------------------------
\* the (group, compute_elements) keys of a frame (in the categorical script
\* compute_elements is not loaded, and the key is the category)
KeysOf(rows) == {<<rows[i].group, rows[i].compute_elements>> : i \in 1..Len(rows)}

WithKey(rows, k) ==
    SelectSeq(rows, LAMBDA r : r.group = k[1] /\ r.compute_elements = k[2])

\* the sum of the loaded walltimes (whole numbers) of some rows
RECURSIVE TotalWalltime(_)
TotalWalltime(rows) ==
    IF rows = <<>> THEN 0
    ELSE Head(rows).walltime.num + TotalWalltime(Tail(rows))

\* the retained rows are two measurements of one key, 10 and 20
TwoMeasurements ==
    /\ Len(filtered) = 2
    /\ KeysOf(filtered) = {<<filtered[1].group, filtered[1].compute_elements>>}
    /\ {filtered[1].walltime, filtered[2].walltime}
          = {[num |-> 10, den |-> 1], [num |-> 20, den |-> 1]}

(* C5: in scaling_plot.py and in the categorical script the aggregated     *)
(* frame has exactly one row for each key of the retained rows, and that   *)
(* row's walltime is the arithmetic mean of the retained rows of the key;  *)
(* two retained rows of one key with walltimes 10 and 20 become one row    *)
(* with walltime 15, before any metric is computed.                        *)
AggregateIsMeanPerKey ==
    (script # "plot" /\ Aggregated) =>
        /\ KeysOf(results) = KeysOf(filtered)
        /\ Len(results) = Cardinality(KeysOf(filtered))
        /\ \A i \in 1..Len(results) :
              LET members == WithKey(filtered,
                                 <<results[i].group, results[i].compute_elements>>)
              IN results[i].walltime.num * Len(members)
                    = results[i].walltime.den * TotalWalltime(members)
        /\ TwoMeasurements =>
              /\ Len(results) = 1
              /\ results[1].walltime.num = 15 * results[1].walltime.den

\* scaling_plot.py averaged 10 and 20 and has not computed a metric yet
AveragedTenAndTwenty ==
    /\ script = "scaling_plot"
    /\ pc = "metrics"
    /\ TwoMeasurements
    /\ results[1].walltime = [num |-> 15, den |-> 1]

----------------------------------------------------------------------------
\* the loaded rows with a key and a positive walltime
CompleteRows ==
    SelectSeq(Load(sheet, script, args),
              LAMBDA r : r.group # Null /\ r.walltime.num > 0)

(* C6: with a filter column, a row is retained exactly when its filter     *)
(* value is truthy (non-zero, negative values included) and dropped        *)
(* exactly when it is falsy (0 or False).                                  *)
FilterKeepsTruthyRows ==
    FilterColumnApplied =>
        filtered = SelectSeq(CompleteRows, LAMBDA r : r.filter # 0)

----------------------------------------------------------------------------
\* the groups of the sheet of which the filters leave no row
EmptiedGroups ==
    {g \in GroupsOf(sheet) \ {Null} : g \notin GroupsOf(filtered)}

(* C7 as stated: in scaling_plot.py, when the filters leave no row of a    *)
(* group of the sheet the run fails (with a DataError): no run with such a *)
(* group completes.                                                        *)
EmptiedGroupFailsRun ==
    (script = "scaling_plot" /\ EmptiedGroups # {}) => pc # "done"

(* C7 as amended: in scaling_plot.py a group of which the filters leave no *)
(* row raises nothing: it is left out of group_dataframes, of the series   *)
(* names and of every chart, and the run goes on with the other groups.    *)
(* The metrics fail only on a remaining group that has no reference row;   *)
(* they succeed when every remaining group has one, and the series are     *)
(* then those of the remaining groups.  Apart from a chart that cannot be  *)
(* drawn or saved, the run fails otherwise only when no row remains.       *)
EmptiedGroupOmitted ==
    (script = "scaling_plot" /\ pc # "start") =>
        /\ error # "DataError"
        /\ \A g \in EmptiedGroups :
              /\ \A i \in 1..Len(group_dataframes) : group_dataframes[i].name # g
              /\ g \notin Range(series_names)
              /\ \A c \in 1..Len(charts) : \A i \in 1..Len(charts[c].drawn) :
                    charts[c].drawn[i].name # g
        /\ error = "TypeError" =>
              \E g \in GroupsOf(filtered) : ReferenceOf(results, g) = <<>>
        /\ (MetricsAttempted /\ \A g \in GroupsOf(filtered) :
                                    ReferenceOf(results, g) # <<>>) =>
              /\ MetricsDone
              /\ {group_dataframes[i].name : i \in 1..Len(group_dataframes)}
                    = GroupsOf(filtered)
        /\ (pc = "failed" /\ error \notin {"TypeError", "ValueError", "IOError"}) =>
              filtered = <<>>

\* a run completed and charted a group although another group was emptied
CompletedWithoutEmptiedGroup ==
    /\ script = "scaling_plot"
    /\ pc = "done"
    /\ EmptiedGroups # {}
    /\ charts # <<>>
    /\ series_names # <<>>

----------------------------------------------------------------------------
(* C8 as stated: a run that fails has written no chart file.               *)
FailedRunWroteNoFile ==
    pc = "failed" => files = <<>>

(* C8 as amended: a run is fail-fast: a step that fails ends the run, so   *)
(* nothing is retried and no chart is drawn and no file written after a    *)
(* failure; the chart files saved before the failing step remain.          *)
FailFast ==
    [][/\ error' # "none" => pc' = "failed"
       /\ error # "none" => UNCHANGED vars
       /\ (files' = files \/ \E f \in Range(files') : files' = Append(files, f))]_vars

\* a run failed after it had saved a chart
FailedAfterSavedChart ==
    /\ pc = "failed"
    /\ files # <<>>

----------------------------------------------------------------------------
(* C9: in scaling_plot.py the row of every group at one compute element    *)
(* has speedup 1 and strong_efficiency 1; in the categorical script the    *)
(* baseline category has speedup 1.                                        *)
ReferenceMetricsAreOne ==
    MetricsDone =>
        /\ script = "scaling_plot" =>
              \A i \in 1..Len(group_dataframes) :
                 \A j \in 1..Len(group_dataframes[i].data) :
                    LET row == group_dataframes[i].data[j]
                    IN row.compute_elements = 1 =>
                          /\ row.speedup = One
                          /\ row.strong_efficiency = One
        /\ script = "scaling_plot_categorical" =>
              \A i \in 1..Len(results) :
                 results[i].group = args.baseline_category =>
                    results[i].speedup = One

\* two groups with different reference walltimes have their metrics
TwoReferencesComputed ==
    /\ script = "scaling_plot"
    /\ pc = "series"
    /\ Len(group_dataframes) = 2
    /\ group_dataframes[1].data[1].compute_elements = 1
    /\ group_dataframes[2].data[1].compute_elements = 1
    /\ group_dataframes[1].data[1].walltime # group_dataframes[2].data[1].walltime
    /\ group_dataframes[1].data[1].strong_efficiency = One

----------------------------------------------------------------------------
(* C10: in scaling_plot.py the x axis handed to the charts holds the       *)
(* compute_elements values of the aggregated rows of all groups, each      *)
(* once, in strictly ascending order.                                      *)
AxisIsSortedUnion ==
    (script = "scaling_plot" /\ pc \in {"walltime", "efficiency", "speedup", "done"}) =>
        /\ Range(compute_elements)
              = {results[i].compute_elements : i \in 1..Len(results)}
        /\ \A i \in 1..Len(compute_elements) - 1 :
              compute_elements[i] < compute_elements[i + 1]
        /\ \A c \in 1..Len(charts) : charts[c].x = compute_elements

\* the axis of two groups measured at different compute elements
AxisOfTwoGroups ==
    /\ script = "scaling_plot"
    /\ pc = "walltime"
    /\ compute_elements = <<1, 2, 4>>
    /\ Len(group_dataframes) = 2
    /\ Len(group_dataframes[1].data) = 2
    /\ Len(group_dataframes[2].data) = 2

----------------------------------------------------------------------------
(* C11: the two row filters commute.  In a run with --filter_column the rows
   the script retains (the null-key and walltime filter first, the filter
   column second) are the rows the reverse order retains: the filter column
   applied to the loaded sheet first, the null-key and walltime filter
   second. *)
RowFiltersCommute ==
    FilterColumnApplied =>
        filtered = FilterIncomplete(ApplyFilterColumn(Load(sheet, script, args)))

\* a filtered sheet of which each of the two filters removed a row the other
\* one would have kept
EachFilterDroppedARow ==
    /\ script = "scaling_plot"
    /\ args.filter_column # ""
    /\ pc = "aggregate"
    /\ \E i \in 1..Len(sheet) :
          sheet[i].group = Null /\ sheet[i].filter > 0
    /\ \E i \in 1..Len(sheet) :
          sheet[i].group # Null /\ sheet[i].walltime > 0 /\ sheet[i].filter <= 0
    /\ filtered = <<>>

----------------------------------------------------------------------------
\* the categorical script is past its speedup computation, which did not raise
CategoricalMetricsDone ==
    /\ script = "scaling_plot_categorical"
    /\ MetricsDone

\* the run has ended, with all its charts or with an exception
RunEnded == pc \in {"done", "failed"}

(* C12: in the categorical script t1 is the mean walltime of the retained
   rows whose category is the --baseline_category, each category's speedup
   is t1 divided by the mean walltime of the category, and the i-th speedup
   handed to the chart is the speedup of the i-th category name.  A run on
   a baseline v1 at 50 and a category v2 at 25 computes the speedups 1 and 2
   for the names v1 and v2. *)
CategoricalSpeedupFromBaseline ==
    /\ CategoricalMetricsDone =>
          /\ LET base == RowsOf(filtered, args.baseline_category)
             IN t1.num * Len(base) = t1.den * TotalWalltime(base)
          /\ \A i \in 1..Len(results) :
                EqualsQuotient(results[i].speedup, t1, results[i].walltime)
          /\ pc # "series" =>
                /\ Len(speedups) = Len(series_names)
                /\ \A i \in 1..Len(series_names) :
                      LET members == RowsOf(filtered, series_names[i])
                      IN speedups[i].num * t1.den * TotalWalltime(members)
                            = speedups[i].den * t1.num * Len(members)
    /\ (/\ script = "scaling_plot_categorical"
        /\ sheet \in CategorySheets
        /\ args.baseline_category = "v1"
        /\ RunEnded) =>
            /\ series_names = <<"v1", "v2">>
            /\ speedups = <<One, [num |-> 2, den |-> 1]>>

----------------------------------------------------------------------------
\* the command line names a style matplotlib does not know
InvalidStyleGiven == args.style # "" /\ args.style \notin ValidStyles

(* C13: an invalid --style is recoverable in both command-line scripts: the
   exception is caught, a warning is emitted and the run goes on with the
   default style. *)
InvalidStyleWarnsAndContinues ==
    (script # "plot" /\ InvalidStyleGiven /\ pc # "start") =>
        /\ stdout # <<>>
        /\ style = "default"

----------------------------------------------------------------------------
\* the prefix and separator of a file name, nothing when --file_prefix is
\* absent or empty
NamePrefix ==
    IF args.file_prefix = Null \/ args.file_prefix = "" THEN ""
    ELSE args.file_prefix \o "-"

(* C14 as stated: every file a run writes is named optional prefix, '-',
   one of 'walltime', 'speedup' and 'efficiency', '.', extension, and a run
   with --window writes no file. *)
FilesNamedByChartKind ==
    /\ \A i \in 1..Len(files) :
          \E base \in {"walltime", "speedup", "efficiency"} :
             files[i] = NamePrefix \o base \o "." \o args.file_extension
    /\ args.window => files = <<>>

(* C14: a completed run of scaling_plot.py without --window has written,
   in this order, walltime, strong-efficiency (weak-efficiency with --weak)
   and, unless --weak, speedup, each with the extension png.  Each name is
   the optional prefix and '-' (nothing when --file_prefix is absent or
   empty), the base, '.' and the extension.  The script never writes
   another file, and with --window (always in plot.py) no file is written. *)
OutputFileNames ==
    LET expected == <<NamePrefix \o "walltime.png",
                      NamePrefix \o (IF args.weak THEN "weak-efficiency.png"
                                     ELSE "strong-efficiency.png")>>
                    \o (IF args.weak THEN <<>>
                        ELSE <<NamePrefix \o "speedup.png">>)
    IN /\ args.window => files = <<>>
       /\ script = "scaling_plot" =>
             /\ Len(files) <= Len(expected)
             /\ files = SubSeq(expected, 1, Len(files))
             /\ (pc = "done" /\ ~args.window) => files = expected

\* a strong-scaling run with the prefix "run" wrote its three files
PrefixedFilesWritten ==
    /\ script = "scaling_plot"
    /\ pc = "done"
    /\ args.file_prefix = "run"
    /\ ~args.weak
    /\ files = <<"run-walltime.png", "run-strong-efficiency.png",
                 "run-speedup.png">>

----------------------------------------------------------------------------
\* a <= b for two fractions with positive denominators
FracLeq(a, b) == a.num * b.den <= b.num * a.den

\* the frames of scaling_plot.py that have their metric columns
FramesWithMetrics ==
    IF script = "scaling_plot" /\ MetricsDone THEN group_dataframes ELSE <<>>

\* in the frame, a row with more compute elements never has a larger walltime
WalltimeNeverGrows(data) ==
    \A i, j \in 1..Len(data) :
        data[i].compute_elements < data[j].compute_elements =>
            FracLeq(data[j].walltime, data[i].walltime)

(* C15: in every group of scaling_plot.py whose walltime is non-increasing
   as compute_elements increases, the rows are in ascending order of
   compute_elements and the speedup sequence of the group is non-decreasing
   in that order. *)
SpeedupMonotoneWhenWalltimeFalls ==
    \A k \in 1..Len(FramesWithMetrics) :
        LET data == FramesWithMetrics[k].data
        IN WalltimeNeverGrows(data) =>
              \A i \in 1..(Len(data) - 1) :
                 /\ data[i].compute_elements < data[i + 1].compute_elements
                 /\ FracLeq(data[i].speedup, data[i + 1].speedup)

\* a group measured at 1, 2 and 4 compute elements, listed after another
\* group, with falling walltimes and rising speedups
ThreePointsSpeedUp ==
    /\ script = "scaling_plot"
    /\ pc = "series"
    /\ \E k \in 1..Len(group_dataframes) :
          LET data == group_dataframes[k].data
          IN /\ Len(data) = 3
             /\ WalltimeNeverGrows(data)
             /\ Column(data, "speedup")
                   = <<One, [num |-> 5, den |-> 3], [num |-> 5, den |-> 1]>>

----------------------------------------------------------------------------
(* C16: in every row of every group of scaling_plot.py the weak_efficiency
   that calculate_speedup_and_efficiency returns equals the speedup of the
   row. *)
WeakEfficiencyEqualsSpeedup ==
    \A k \in 1..Len(FramesWithMetrics) :
        \A i \in 1..Len(FramesWithMetrics[k].data) :
            LET row == FramesWithMetrics[k].data[i]
            IN row.weak_efficiency = row.speedup

\* a row at two compute elements whose weak efficiency is its speedup and
\* not its strong efficiency
WeakDiffersFromStrong ==
    /\ script = "scaling_plot"
    /\ pc = "series"
    /\ \E k \in 1..Len(group_dataframes) :
          \E i \in 1..Len(group_dataframes[k].data) :
             LET row == group_dataframes[k].data[i]
             IN /\ row.compute_elements = 2
                /\ row.weak_efficiency = row.speedup
                /\ row.weak_efficiency # row.strong_efficiency

----------------------------------------------------------------------------
\* the kinds of the charts rendered so far, in the order of rendering
ChartKinds == [c \in 1..Len(charts) |-> charts[c].kind]

\* the chart drew, for each group it shows, that column of the group's frame
DrawsColumn(chart, col) ==
    \A k \in 1..Len(chart.drawn) :
        chart.drawn[k].values = Column(group_dataframes[k].data, col)

(* C17: scaling_plot.py renders its charts in the order walltime,
   efficiency, speedup.  With --weak the efficiency chart is given the
   weak_efficiency series and no speedup chart is ever rendered; without
   --weak the efficiency chart is given the strong_efficiency series and the
   speedup chart is rendered last. *)
ChartsInFixedOrder ==
    script = "scaling_plot" =>
        LET order == IF args.weak THEN <<"walltime", "efficiency">>
                     ELSE <<"walltime", "efficiency", "speedup">>
        IN /\ Len(charts) <= Len(order)
           /\ ChartKinds = SubSeq(order, 1, Len(charts))
           /\ pc = "done" => ChartKinds = order
           /\ \A c \in 1..Len(charts) :
                 /\ charts[c].kind = "efficiency" =>
                       DrawsColumn(charts[c], IF args.weak THEN "weak_efficiency"
                                              ELSE "strong_efficiency")
                 /\ charts[c].kind = "speedup" => DrawsColumn(charts[c], "speedup")
                 /\ charts[c].kind = "walltime" => DrawsColumn(charts[c], "walltime")

\* a finished --weak run: two charts, the second one drawn from weak
\* efficiencies that are not the strong ones
WeakRunFinished ==
    /\ script = "scaling_plot"
    /\ args.weak
    /\ pc = "done"
    /\ ChartKinds = <<"walltime", "efficiency">>
    /\ charts[2].drawn # <<>>
    /\ charts[2].drawn[1].values = weak_efficiencies[1]
    /\ weak_efficiencies[1] # strong_efficiencies[1]

----------------------------------------------------------------------------
(* C18: every series handed to a chart of scaling_plot.py has as many
   points as the shared x axis, and its i-th point was measured at the i-th
   value of the axis. *)
SeriesAlignedWithAxis ==
    (script = "scaling_plot" /\ pc \in {"walltime", "efficiency", "speedup", "done"}) =>
        \A k \in 1..Len(walltimes) :
            /\ Len(walltimes[k]) = Len(compute_elements)
            /\ Len(speedups[k]) = Len(compute_elements)
            /\ Len(EfficiencySeries[k]) = Len(compute_elements)
            /\ \A i \in 1..Len(walltimes[k]) :
                  group_dataframes[k].data[i].compute_elements = compute_elements[i]

====
